---- MODULE Spec2Model ----
(***************************************************************************)
(* The two setup scripts of agents/finance:                                *)
(*   schwab_setup.py  the brokerage OAuth2 bootstrap script (main)         *)
(*   plaid_setup.py   the link-flow server (module body, Flask handlers)   *)
(* One behaviour is one run of one of the scripts; the script is chosen in *)
(* Init.  Strings are sequences of one-character strings.  The vendor SDKs *)
(* and the operating system are the environment: their outcomes are        *)
(* nondeterministic choices.                                               *)
(***************************************************************************)
EXTENDS Integers, Sequences, FiniteSets, TLC

VARIABLES
    script,          \* "schwab" | "plaid": the entry point this run executes
    env,             \* os.environ after load_dotenv: name -> [set, val]
    importable,      \* the third-party packages an import finds
    fs,              \* the filesystem: [dirs, files], sets of resolved paths
    fs0,             \* the filesystem the run started with
    pc,              \* position in the script or in the handler
    exited,          \* the process has terminated
    exitCode,        \* its exit status
    stderr,          \* what the terminating error wrote: [kind, name]
    stdout,          \* lines printed by the run (script) or for the request in hand
    client_id,       \* locals of main / module globals
    client_secret,
    secret,
    token_file,
    token_dir,
    effects,         \* side effects performed so far (vendor calls, makedirs)
    vendorCalls,     \* vendor calls issued by the operation in hand
    vendorFailed,    \* the vendor call of the operation in hand raised
    flowPath,        \* token_path argument given to client_from_login_flow
    route,           \* route of the request in hand
    body,            \* its parsed JSON body
    public_token,    \* locals of exchange_token
    institution_name,
    sentToken,       \* public_token field of the request given to the vendor
    vendorToken,     \* token the vendor returned to the operation in hand
    response         \* response of the request in hand

vars == <<script, env, importable, fs, fs0, pc, exited, exitCode, stderr, stdout,
          client_id, client_secret, secret, token_file, token_dir, effects, vendorCalls,
          vendorFailed, flowPath, route, body, public_token, institution_name,
          sentToken, vendorToken, response>>

schwabVars == <<client_secret, token_file, token_dir, fs, flowPath>>
serverVars == <<secret, route, body, public_token, institution_name, sentToken,
                vendorToken, response>>

(***************************************************************************)
(* Bounds                                                                  *)
(***************************************************************************)
MaxPathLen == 4      \* longest SCHWAB_TOKEN_FILE value
MaxNameLen == 2      \* longest institution name
MaxTokenLen == 1     \* longest vendor token

StringsUpTo(chars, n) == UNION {[1..k -> chars] : k \in 0..n}

EmptyStr == <<>>

\* an environment variable: unset, or set to a value
Unset == [set |-> FALSE, val |-> EmptyStr]
SetTo(s) == [set |-> TRUE, val |-> s]

CredValues == {Unset, SetTo(<<>>), SetTo(<<" ">>), SetTo(<<"a">>),
               SetTo(<<" ", "a", " ">>)}
PathValues == {Unset} \cup {SetTo(s) : s \in StringsUpTo({" ", "a", "/"}, MaxPathLen)}

SchwabVarNames == <<"SCHWAB_CLIENT_ID", "SCHWAB_CLIENT_SECRET", "SCHWAB_TOKEN_FILE">>
PlaidVarNames == <<"PLAID_CLIENT_ID", "PLAID_SECRET">>
VarNames == {SchwabVarNames[i] : i \in 1..3} \cup {PlaidVarNames[i] : i \in 1..2}

(***************************************************************************)
(* Python built-ins the scripts use                                        *)
(***************************************************************************)
\* os.environ.get(name, default)
EnvGet(name, default) == IF env[name].set THEN env[name].val ELSE default

IsSpace(c) == c = " "

RECURSIVE LStrip(_)
LStrip(s) == IF s # <<>> /\ IsSpace(Head(s)) THEN LStrip(Tail(s)) ELSE s

RECURSIVE RStrip(_)
RStrip(s) ==
    IF s # <<>> /\ IsSpace(s[Len(s)]) THEN RStrip(SubSeq(s, 1, Len(s) - 1)) ELSE s

\* a plausible slip: the value is used as read, without .strip()
StripNothing(s) == s

\* str.strip()
Strip(s) == RStrip(LStrip(s))

\* a plausible slip: the emptiness test is dropped
NeverFalsy(s) == FALSE

\* `not s` for a str
Falsy(s) == s = <<>>

\* str.rfind("/"), 1-based, 0 when there is none
LastSlash(s) ==
    LET at == {i \in 1..Len(s) : s[i] = "/"}
    IN IF at = {} THEN 0 ELSE CHOOSE i \in at : \A j \in at : j <= i

RECURSIVE RStripSlash(_)
RStripSlash(s) ==
    IF s # <<>> /\ s[Len(s)] = "/" THEN RStripSlash(SubSeq(s, 1, Len(s) - 1)) ELSE s

\* os.path.dirname (posixpath): the text up to the last slash, its trailing
\* slashes removed unless it is slashes only
Dirname(p) ==
    LET head == SubSeq(p, 1, LastSlash(p))
    IN IF head # <<>> /\ \E i \in 1..Len(head) : head[i] # "/"
       THEN RStripSlash(head)
       ELSE head

(***************************************************************************)
(* The filesystem os.makedirs acts on                                      *)
(***************************************************************************)
FirstSlash(s) ==
    LET at == {i \in 1..Len(s) : s[i] = "/"}
    IN IF at = {} THEN Len(s) + 1 ELSE CHOOSE i \in at : \A j \in at : i <= j

\* the components of a path, empty ones dropped
RECURSIVE Components(_)
Components(s) ==
    IF s = <<>> THEN <<>>
    ELSE LET i == FirstSlash(s)
             first == SubSeq(s, 1, i - 1)
             rest == SubSeq(s, i + 1, Len(s))
         IN IF first = <<>> THEN Components(rest) ELSE <<first>> \o Components(rest)

\* the resolved path of a path string: absolute or relative to the working directory
Resolve(s) == [abs |-> s # <<>> /\ s[1] = "/", comps |-> Components(s)]

\* the ancestors of a resolved path and the path itself, outermost first
Prefixes(p) == [k \in 1..Len(p.comps) |-> [abs |-> p.abs, comps |-> SubSeq(p.comps, 1, k)]]

\* the root and the working directory always exist
IsDir(fsys, p) == p.comps = <<>> \/ p \in fsys.dirs

\* a plausible slip: the directory is never created
MakedirsNothing(fsys, p, upto) == fsys

\* os.makedirs(name, exist_ok=True) having created the first `upto` levels
Makedirs(fsys, p, upto) ==
    [fsys EXCEPT !.dirs = @ \cup {Prefixes(p)[k] : k \in 1..upto}]

\* the level at which a file is in the way, 0 when none is
Blocked(fsys, p) ==
    LET at == {k \in 1..Len(p.comps) : Prefixes(p)[k] \in fsys.files}
    IN IF at = {} THEN 0 ELSE CHOOSE k \in at : \A j \in at : k <= j

A1 == <<"a">>
InitialFilesystems ==
    LET ra == [abs |-> FALSE, comps |-> <<A1>>]
        raa == [abs |-> FALSE, comps |-> <<A1, A1>>]
        aa == [abs |-> TRUE, comps |-> <<A1>>]
    IN {fsys \in [dirs : SUBSET {ra, raa, aa}, files : SUBSET {ra}] :
            /\ raa \in fsys.dirs => ra \in fsys.dirs
            /\ fsys.dirs \cap fsys.files = {}}

(***************************************************************************)
(* Output and termination                                                  *)
(***************************************************************************)
NoError == [kind |-> "none", name |-> ""]
MissingVar(name) == [kind |-> "missing_var", name |-> name]
NotInstalled(pkg) == [kind |-> "not_installed", name |-> pkg]
FlowFailed == [kind |-> "flow_failed", name |-> ""]
Traceback(exc) == [kind |-> "traceback", name |-> exc]

Line(tag, val) == [tag |-> tag, val |-> val]

\* a response: status, whether the body is JSON, the JSON object's fields, the
\* link_token field's value, and whether an exception left the handler
Response(status, json, fields, tok, uncaught) ==
    [status |-> status, json |-> json, fields |-> fields, link_token |-> tok,
     uncaught |-> uncaught]

NoResponse == Response(0, FALSE, {}, EmptyStr, FALSE)

(***************************************************************************)
(* JSON values of a request body                                           *)
(***************************************************************************)
Absent == [t |-> "absent", v |-> EmptyStr]
Null == [t |-> "null", v |-> EmptyStr]
Num(digits) == [t |-> "num", v |-> digits]
Str(s) == [t |-> "str", v |-> s]

Unknown == <<"u", "n", "k", "n", "o", "w", "n">>

NameStrings == StringsUpTo({"A", "a", " "}, MaxNameLen)
VendorTokens == StringsUpTo({"T", "t"}, MaxTokenLen) \ {EmptyStr}

TokenFields == {Absent, Null, Num(<<"5">>), Str(EmptyStr)} \cup {Str(s) : s \in VendorTokens}
NameFields == {Absent, Null, Num(<<"5">>)} \cup {Str(s) : s \in NameStrings}

\* the institution member: absent, null, a string, or an object with or without
\* a name and with or without other members
Institution(t, v, other, name) == [t |-> t, v |-> v, other |-> other, name |-> name]
InstitutionFields ==
    {Institution("absent", EmptyStr, FALSE, Absent),
     Institution("null", EmptyStr, FALSE, Absent),
     Institution("str", EmptyStr, FALSE, Absent),
     Institution("str", <<"a">>, FALSE, Absent)}
    \cup {Institution("obj", EmptyStr, o, n) : o \in BOOLEAN, n \in NameFields}

Body(kind, pt, inst) == [kind |-> kind, pt |-> pt, inst |-> inst]
NoBody == Body("none", Absent, Institution("absent", EmptyStr, FALSE, Absent))
Bodies ==
    {Body(k, Absent, Institution("absent", EmptyStr, FALSE, Absent)) :
        k \in {"malformed", "null", "array"}}
    \cup {Body("object", pt, inst) : pt \in TokenFields, inst \in InstitutionFields}

\* sys.exit(message), an uncaught exception, or the end of main
Exit(code, err) ==
    /\ exited' = TRUE
    /\ exitCode' = code
    /\ stderr' = err
    /\ pc' = "exited"

Running == /\ UNCHANGED <<exited, exitCode, stderr>>

Init ==
    /\ script \in {"schwab", "plaid"}
    /\ \E id \in CredValues, sec \in CredValues, path \in PathValues :
          env = IF script = "schwab"
                THEN [n \in VarNames |->
                        IF n = "SCHWAB_CLIENT_ID" THEN id
                        ELSE IF n = "SCHWAB_CLIENT_SECRET" THEN sec
                        ELSE IF n = "SCHWAB_TOKEN_FILE" THEN path
                        ELSE Unset]
                ELSE [n \in VarNames |->
                        IF n = "PLAID_CLIENT_ID" THEN id
                        ELSE IF n = "PLAID_SECRET" THEN sec
                        ELSE Unset]
    /\ importable \in IF script = "schwab" THEN SUBSET {"schwab"}
                      ELSE SUBSET {"flask", "plaid"}
    /\ fs \in IF script = "schwab" THEN InitialFilesystems
              ELSE {[dirs |-> {}, files |-> {}]}
    /\ fs0 = fs
    /\ pc = "start"
    /\ exited = FALSE
    /\ exitCode = 0
    /\ stderr = NoError
    /\ stdout = <<>>
    /\ client_id = EmptyStr
    /\ client_secret = EmptyStr
    /\ secret = EmptyStr
    /\ token_file = EmptyStr
    /\ token_dir = EmptyStr
    /\ effects = {}
    /\ vendorCalls = 0
    /\ vendorFailed = FALSE
    /\ flowPath = EmptyStr
    /\ route = "none"
    /\ body = NoBody
    /\ public_token = Absent
    /\ institution_name = Absent
    /\ sentToken = Absent
    /\ vendorToken = EmptyStr
    /\ response = NoResponse

(***************************************************************************)
(* schwab_setup.py: main                                                   *)
(***************************************************************************)
\* lines 21-23: the three values, read and stripped
SchwabReadConfig ==
    /\ script = "schwab" /\ pc = "start"
    /\ client_id' = Strip(EnvGet("SCHWAB_CLIENT_ID", EmptyStr))
    /\ client_secret' = Strip(EnvGet("SCHWAB_CLIENT_SECRET", EmptyStr))
    /\ token_file' = Strip(EnvGet("SCHWAB_TOKEN_FILE", EmptyStr))
    /\ pc' = "check"
    /\ Running
    /\ UNCHANGED <<script, env, importable, fs, fs0, stdout, token_dir, effects,
                   vendorCalls, vendorFailed, flowPath, serverVars>>

\* lines 25-30: the first missing value aborts the run
SchwabCheckConfig ==
    /\ script = "schwab" /\ pc = "check"
    /\ IF Falsy(client_id) THEN Exit(1, MissingVar("SCHWAB_CLIENT_ID"))
       ELSE IF Falsy(client_secret) THEN Exit(1, MissingVar("SCHWAB_CLIENT_SECRET"))
       ELSE IF Falsy(token_file) THEN Exit(1, MissingVar("SCHWAB_TOKEN_FILE"))
       ELSE pc' = "ensure_dir" /\ Running
    /\ UNCHANGED <<script, env, importable, fs, fs0, stdout, client_id, client_secret,
                   token_file, token_dir, effects, vendorCalls, vendorFailed, flowPath,
                   serverVars>>

\* lines 33-35: the token file's directory is created when the path names one;
\* os.makedirs raises when a file is in the way or the system refuses a level,
\* and nothing in main catches that
SchwabEnsureDir ==
    /\ script = "schwab" /\ pc = "ensure_dir"
    /\ LET dir == Dirname(token_file)
           p == Resolve(dir)
           n == Len(p.comps)
       IN /\ token_dir' = dir
          /\ IF Falsy(dir)
             THEN pc' = "import" /\ Running /\ UNCHANGED <<fs, effects>>
             ELSE /\ effects' = effects \cup {"makedirs"}
                  /\ IF Blocked(fs, p) > 0
                     THEN Exit(1, Traceback("OSError")) /\ UNCHANGED fs
                     ELSE \/ /\ fs' = Makedirs(fs, p, n)
                             /\ pc' = "import" /\ Running
                          \/ \E k \in 0..(n - 1) :
                               /\ ~IsDir(fs, Prefixes(p)[k + 1])
                               /\ fs' = Makedirs(fs, p, k)
                               /\ Exit(1, Traceback("OSError"))
    /\ UNCHANGED <<script, env, importable, fs0, stdout, client_id, client_secret,
                   token_file, vendorCalls, vendorFailed, flowPath, serverVars>>

\* lines 37-45: the SDK is imported, then the instructions are printed
SchwabImport ==
    /\ script = "schwab" /\ pc = "import"
    /\ IF "schwab" \in importable
       THEN /\ stdout' = Append(stdout, Line("instructions", EmptyStr))
            /\ pc' = "call_flow" /\ Running
       ELSE Exit(1, NotInstalled("schwab-py")) /\ UNCHANGED stdout
    /\ UNCHANGED <<script, env, importable, fs, fs0, client_id, client_secret,
                   token_file, token_dir, effects, vendorCalls, vendorFailed, flowPath,
                   serverVars>>

\* lines 49-54: the vendor's login flow is entered
SchwabCallFlow ==
    /\ script = "schwab" /\ pc = "call_flow"
    /\ effects' = effects \cup {"client_from_login_flow"}
    /\ vendorCalls' = vendorCalls + 1
    /\ flowPath' = token_file
    /\ pc' = "in_flow"
    /\ Running
    /\ UNCHANGED <<script, env, importable, fs, fs0, stdout, client_id, client_secret,
                   token_file, token_dir, vendorFailed, serverVars>>

\* line 49 returns (the SDK has written the token file, which the model leaves out)
SchwabFlowReturns ==
    /\ script = "schwab" /\ pc = "in_flow"
    /\ pc' = "report"
    /\ Running
    /\ UNCHANGED <<script, env, importable, fs, fs0, stdout, client_id, client_secret,
                   token_file, token_dir, effects, vendorCalls, vendorFailed, flowPath,
                   serverVars>>

\* a plausible slip: the failure is swallowed and main goes on to report
FlowRaisesIgnored ==
    /\ script = "schwab" /\ pc = "in_flow"
    /\ vendorFailed' = TRUE
    /\ pc' = "report"
    /\ Running
    /\ UNCHANGED <<script, env, importable, fs, fs0, stdout, client_id, client_secret,
                   token_file, token_dir, effects, vendorCalls, flowPath, serverVars>>

\* lines 55-56: an Exception of the flow aborts the run; a KeyboardInterrupt is
\* no Exception and leaves main uncaught
SchwabFlowRaises ==
    /\ script = "schwab" /\ pc = "in_flow"
    /\ vendorFailed' = TRUE
    /\ \/ Exit(1, FlowFailed)
       \/ Exit(130, Traceback("KeyboardInterrupt"))
    /\ UNCHANGED <<script, env, importable, fs, fs0, stdout, client_id, client_secret,
                   token_file, token_dir, effects, vendorCalls, flowPath, serverVars>>

\* lines 58-60: success is reported with the path, and main returns
SchwabReport ==
    /\ script = "schwab" /\ pc = "report"
    /\ stdout' = stdout \o <<Line("success", token_file), Line("next_steps", EmptyStr)>>
    /\ Exit(0, NoError)
    /\ UNCHANGED <<script, env, importable, fs, fs0, client_id, client_secret,
                   token_file, token_dir, effects, vendorCalls, vendorFailed, flowPath,
                   serverVars>>

(***************************************************************************)
(* plaid_setup.py: module body                                             *)
(***************************************************************************)
\* lines 25-28
PlaidImportFlask ==
    /\ script = "plaid" /\ pc = "start"
    /\ IF "flask" \in importable
       THEN pc' = "import_plaid" /\ Running
       ELSE Exit(1, NotInstalled("flask"))
    /\ UNCHANGED <<script, env, importable, fs, fs0, stdout, client_id, effects,
                   vendorCalls, vendorFailed, schwabVars, serverVars>>

\* lines 30-39
PlaidImportSdk ==
    /\ script = "plaid" /\ pc = "import_plaid"
    /\ IF "plaid" \in importable
       THEN pc' = "read_config" /\ Running
       ELSE Exit(1, NotInstalled("plaid-python"))
    /\ UNCHANGED <<script, env, importable, fs, fs0, stdout, client_id, effects,
                   vendorCalls, vendorFailed, schwabVars, serverVars>>

\* lines 42-43
PlaidReadConfig ==
    /\ script = "plaid" /\ pc = "read_config"
    /\ client_id' = Strip(EnvGet("PLAID_CLIENT_ID", EmptyStr))
    /\ secret' = Strip(EnvGet("PLAID_SECRET", EmptyStr))
    /\ pc' = "check"
    /\ Running
    /\ UNCHANGED <<script, env, importable, fs, fs0, stdout, effects, vendorCalls,
                   vendorFailed, schwabVars, route, body, public_token,
                   institution_name, sentToken, vendorToken, response>>

\* lines 46-49
PlaidCheckConfig ==
    /\ script = "plaid" /\ pc = "check"
    /\ IF Falsy(client_id) THEN Exit(1, MissingVar("PLAID_CLIENT_ID"))
       ELSE IF Falsy(secret) THEN Exit(1, MissingVar("PLAID_SECRET"))
       ELSE pc' = "build_client" /\ Running
    /\ UNCHANGED <<script, env, importable, fs, fs0, stdout, client_id, effects,
                   vendorCalls, vendorFailed, schwabVars, serverVars>>

\* lines 51-65: the vendor client is built from the two values
PlaidBuildClient ==
    /\ script = "plaid" /\ pc = "build_client"
    /\ effects' = effects \cup {"plaid_client"}
    /\ pc' = "run"
    /\ Running
    /\ UNCHANGED <<script, env, importable, fs, fs0, stdout, client_id, vendorCalls,
                   vendorFailed, schwabVars, serverVars>>

\* lines 166-170: the banner is printed and the server starts
PlaidRun ==
    /\ script = "plaid" /\ pc = "run"
    /\ stdout' = Append(stdout, Line("banner", EmptyStr))
    /\ pc' = "serving"
    /\ Running
    /\ UNCHANGED <<script, env, importable, fs, fs0, client_id, effects, vendorCalls,
                   vendorFailed, schwabVars, serverVars>>

(***************************************************************************)
(* plaid_setup.py: the handlers.  A request is taken when the server is    *)
(* idle and is handled to its response before the next one is taken; no    *)
(* state is kept between requests: once the response is sent the handler's *)
(* locals are gone, and stdout and vendorCalls start afresh.               *)
(***************************************************************************)
FirstStep(r) ==
    IF r = "index" THEN "index"
    ELSE IF r = "create_link_token" THEN "clt_build"
    ELSE "xt_parse"

ReceiveRequest ==
    /\ script = "plaid" /\ pc = "serving"
    /\ \E r \in {"index", "create_link_token", "exchange_token"} :
         /\ route' = r
         /\ body' \in IF r = "exchange_token" THEN Bodies ELSE {NoBody}
         /\ pc' = FirstStep(r)
    /\ Running
    /\ UNCHANGED <<script, env, importable, fs, fs0, stdout, client_id, secret,
                   effects, vendorCalls, vendorFailed, schwabVars, public_token,
                   institution_name, sentToken, vendorToken, response>>

Respond(r) == response' = r /\ pc' = "responded"

\* the response is sent and the server is idle again
SendResponse ==
    /\ script = "plaid" /\ pc = "responded"
    /\ pc' = "serving"
    /\ route' = "none"
    /\ body' = NoBody
    /\ stdout' = <<>>
    /\ vendorCalls' = 0
    /\ vendorFailed' = FALSE
    /\ public_token' = Absent
    /\ institution_name' = Absent
    /\ sentToken' = Absent
    /\ vendorToken' = EmptyStr
    /\ response' = NoResponse
    /\ Running
    /\ UNCHANGED <<script, env, importable, fs, fs0, client_id, secret, effects,
                   schwabVars>>

handlerFrame == <<script, env, importable, fs, fs0, client_id, secret, schwabVars,
                  route, body, exited, exitCode, stderr>>

PageResponse == Response(200, FALSE, {}, EmptyStr, FALSE)
SuccessResponse == Response(200, TRUE, {"success"}, EmptyStr, FALSE)
LinkTokenResponse(tok) == Response(200, TRUE, {"link_token"}, tok, FALSE)
\* a plausible slip: the error body is sent with the default status
ErrorResponseOk == Response(200, TRUE, {"error"}, EmptyStr, FALSE)
\* jsonify({"error": str(e)}), 500
ErrorResponse == Response(500, TRUE, {"error"}, EmptyStr, FALSE)
\* Flask's answer to an exception that leaves a handler: its own 500 page
UncaughtResponse == Response(500, FALSE, {}, EmptyStr, TRUE)
\* Flask's answer to a body get_json cannot parse
BadRequestResponse == Response(400, FALSE, {}, EmptyStr, FALSE)

\* lines 119-121
Index ==
    /\ script = "plaid" /\ pc = "index"
    /\ Respond(PageResponse)
    /\ UNCHANGED <<handlerFrame, stdout, effects, vendorCalls, vendorFailed,
                   public_token, institution_name, sentToken, vendorToken>>

\* lines 127-133: the request model is built; a model constructor may raise
CreateLinkTokenBuild ==
    /\ script = "plaid" /\ pc = "clt_build"
    /\ \/ pc' = "clt_call" /\ UNCHANGED response
       \/ Respond(ErrorResponse)
    /\ UNCHANGED <<handlerFrame, stdout, effects, vendorCalls, vendorFailed,
                   public_token, institution_name, sentToken, vendorToken>>

\* line 134: the vendor call is issued
CreateLinkTokenCall ==
    /\ script = "plaid" /\ pc = "clt_call"
    /\ effects' = effects \cup {"link_token_create"}
    /\ vendorCalls' = vendorCalls + 1
    /\ pc' = "clt_wait"
    /\ UNCHANGED <<handlerFrame, stdout, vendorFailed, public_token, institution_name,
                   sentToken, vendorToken, response>>

\* lines 134-135: the vendor answers with a link token
CreateLinkTokenReturns ==
    /\ script = "plaid" /\ pc = "clt_wait"
    /\ \E tok \in VendorTokens :
         /\ vendorToken' = tok
         /\ Respond(LinkTokenResponse(tok))
    /\ UNCHANGED <<handlerFrame, stdout, effects, vendorCalls, vendorFailed,
                   public_token, institution_name, sentToken>>

\* lines 136-137: the vendor call raised
CreateLinkTokenRaises ==
    /\ script = "plaid" /\ pc = "clt_wait"
    /\ vendorFailed' = TRUE
    /\ Respond(ErrorResponse)
    /\ UNCHANGED <<handlerFrame, stdout, effects, vendorCalls, public_token,
                   institution_name, sentToken, vendorToken>>

\* truth value of the institution member (None, "" and {} are false)
Truthy(inst) ==
    \/ inst.t = "str" /\ inst.v # EmptyStr
    \/ inst.t = "obj" /\ (inst.other \/ inst.name.t # "absent")

\* lines 142-145, outside the try: the body is parsed and its two members read
ExchangeParse ==
    /\ script = "plaid" /\ pc = "xt_parse"
    /\ IF body.kind = "malformed"
       THEN Respond(BadRequestResponse) /\ UNCHANGED <<public_token, institution_name>>
       ELSE IF body.kind # "object"
       THEN \* data.get on None or on a list: AttributeError
            Respond(UncaughtResponse) /\ UNCHANGED <<public_token, institution_name>>
       ELSE /\ public_token' = IF body.pt.t = "absent" THEN Str(EmptyStr) ELSE body.pt
            /\ IF Truthy(body.inst) /\ body.inst.t # "obj"
               THEN \* institution.get on a str: AttributeError
                    Respond(UncaughtResponse) /\ UNCHANGED institution_name
               ELSE /\ institution_name' =
                          IF Truthy(body.inst) /\ body.inst.name.t # "absent"
                          THEN body.inst.name
                          ELSE Str(Unknown)
                    /\ pc' = "xt_build" /\ UNCHANGED response
    /\ UNCHANGED <<handlerFrame, stdout, effects, vendorCalls, vendorFailed,
                   sentToken, vendorToken>>

\* ItemPublicTokenExchangeRequest(public_token=public_token)
ExchangeRequest(pt) == pt

\* line 148: the request model is built; the SDK's type check may refuse a
\* public_token that is no string
ExchangeBuild ==
    /\ script = "plaid" /\ pc = "xt_build"
    /\ \/ /\ sentToken' = ExchangeRequest(public_token)
          /\ pc' = "xt_call" /\ UNCHANGED response
       \/ /\ public_token.t # "str"
          /\ Respond(ErrorResponse) /\ UNCHANGED sentToken
    /\ UNCHANGED <<handlerFrame, stdout, effects, vendorCalls, vendorFailed,
                   public_token, institution_name, vendorToken>>

\* line 149: the vendor call is issued
ExchangeCall ==
    /\ script = "plaid" /\ pc = "xt_call"
    /\ effects' = effects \cup {"item_public_token_exchange"}
    /\ vendorCalls' = vendorCalls + 1
    /\ pc' = "xt_wait"
    /\ UNCHANGED <<handlerFrame, stdout, vendorFailed, public_token, institution_name,
                   sentToken, vendorToken, response>>

LowerChar(c) == IF c = "A" THEN "a" ELSE IF c = "T" THEN "t" ELSE c

\* str.lower()
Lower(s) == [i \in DOMAIN s |-> LowerChar(s[i])]

\* str.replace(from, to) for one-character strings
Replace(s, from, to) == [i \in DOMAIN s |-> IF s[i] = from THEN to ELSE s[i]]

\* a plausible slip: the token is normalised like the institution name
FStrLowered(x) == IF x.t = "null" THEN <<"N", "o", "n", "e">> ELSE Lower(x.v)

\* f"{x}": the text of a value
FStr(x) == IF x.t = "null" THEN <<"N", "o", "n", "e">> ELSE x.v

\* lines 152-157
PrintedBeforeEnvName(name, tok) ==
    <<Line("rule", EmptyStr),
      Line("Institution", FStr(name)),
      Line("Access token", FStr(Str(tok))),
      Line("blank", EmptyStr),
      Line("Add to your .env file", EmptyStr),
      Line("PLAID_ACCESS_TOKEN", FStr(Str(tok)))>>

\* lines 158-159
PrintedEnvName(name) ==
    <<Line("PLAID_INSTITUTION", Replace(Lower(name.v), " ", "_")),
      Line("rule", EmptyStr)>>

\* lines 149-161: the vendor answers with an access token, which is printed
\* with the institution name; .lower() at line 158 raises AttributeError on a
\* name that is no string, after lines 152-157 have been printed
ExchangeReturns ==
    /\ script = "plaid" /\ pc = "xt_wait"
    /\ \E tok \in VendorTokens :
         /\ vendorToken' = tok
         /\ IF institution_name.t = "str"
            THEN /\ stdout' = stdout \o PrintedBeforeEnvName(institution_name, tok)
                                     \o PrintedEnvName(institution_name)
                 /\ Respond(SuccessResponse)
            ELSE /\ stdout' = stdout \o PrintedBeforeEnvName(institution_name, tok)
                 /\ Respond(ErrorResponse)
    /\ UNCHANGED <<handlerFrame, effects, vendorCalls, vendorFailed, public_token,
                   institution_name, sentToken>>

\* a plausible slip: the handler tries the exchange again
ExchangeRetries ==
    /\ script = "plaid" /\ pc = "xt_wait"
    /\ vendorFailed' = TRUE
    /\ vendorCalls < 3
    /\ pc' = "xt_call"
    /\ UNCHANGED <<handlerFrame, stdout, effects, vendorCalls, public_token,
                   institution_name, sentToken, vendorToken, response>>

\* lines 162-163: the vendor call raised
ExchangeRaises ==
    /\ script = "plaid" /\ pc = "xt_wait"
    /\ vendorFailed' = TRUE
    /\ Respond(ErrorResponse)
    /\ UNCHANGED <<handlerFrame, stdout, effects, vendorCalls, public_token,
                   institution_name, sentToken, vendorToken>>

PlaidNext ==
    \/ PlaidImportFlask
    \/ PlaidImportSdk
    \/ PlaidReadConfig
    \/ PlaidCheckConfig
    \/ PlaidBuildClient
    \/ PlaidRun
    \/ ReceiveRequest
    \/ SendResponse
    \/ Index
    \/ CreateLinkTokenBuild
    \/ CreateLinkTokenCall
    \/ CreateLinkTokenReturns
    \/ CreateLinkTokenRaises
    \/ ExchangeParse
    \/ ExchangeBuild
    \/ ExchangeCall
    \/ ExchangeReturns
    \/ ExchangeRaises

SchwabNext ==
    \/ SchwabReadConfig
    \/ SchwabCheckConfig
    \/ SchwabEnsureDir
    \/ SchwabImport
    \/ SchwabCallFlow
    \/ SchwabFlowReturns
    \/ SchwabFlowRaises
    \/ SchwabReport

Next == SchwabNext \/ PlaidNext

Spec == Init /\ [][Next]_vars

(***************************************************************************)
(* What the claims speak of, stated on the run's inputs and outputs        *)
(***************************************************************************)
\* an environment variable that is unset, empty or whitespace-only
IsBlank(e) == ~e.set \/ \A i \in 1..Len(e.val) : e.val[i] = " "

Required == IF script = "schwab" THEN SchwabVarNames ELSE PlaidVarNames
BlankAt == {i \in DOMAIN Required : IsBlank(env[Required[i]])}
FirstBlank == Required[CHOOSE i \in BlankAt : \A j \in BlankAt : i <= j]

BeforeConfigChecked == {"start", "import_plaid", "read_config", "check"}

AbortsNamingFirstBlank ==
    /\ pc \in BeforeConfigChecked \cup {"exited"}
    /\ exited => exitCode # 0 /\ stderr = MissingVar(FirstBlank)

\* s is raw without its leading and trailing spaces
IsStrippedOf(s, raw) ==
    /\ s # <<>> => s[1] # " " /\ s[Len(s)] # " "
    /\ \E i \in 1..(Len(raw) + 1) :
         /\ i + Len(s) - 1 <= Len(raw)
         /\ s = SubSeq(raw, i, i + Len(s) - 1)
         /\ \A k \in 1..Len(raw) : (k < i \/ k > i + Len(s) - 1) => raw[k] = " "

\* the directory that holds the file a path names
ParentOf(path) ==
    LET c == Components(path)
    IN [abs |-> path # <<>> /\ path[1] = "/", comps |-> SubSeq(c, 1, Len(c) - 1)]

NoDirComponent(path) == \A i \in 1..Len(path) : path[i] # "/"

Lines(tag) == {i \in DOMAIN stdout : stdout[i].tag = tag}

\* the institution name the request carries, 'unknown' when it carries none
RequestedName ==
    IF body.inst.t = "obj" /\ body.inst.name.t = "str" THEN body.inst.name.v
    ELSE Unknown

\* lower-cased, spaces to underscores, character by character
EnvNameOf(name) ==
    [i \in DOMAIN name |->
        IF name[i] = " " THEN "_" ELSE IF name[i] = "A" THEN "a" ELSE name[i]]

ExchangeAnswered == script = "plaid" /\ route = "exchange_token" /\ response.status # 0
CreateAnswered == script = "plaid" /\ route = "create_link_token" /\ response.status # 0

C2_ConfigCheckedBeforeEffects ==
    /\ (effects # {} \/ vendorCalls > 0 \/ fs # fs0)
          => BlankAt = {} /\ pc \notin BeforeConfigChecked
    /\ (exited /\ stderr.kind = "missing_var")
          => effects = {} /\ vendorCalls = 0 /\ fs = fs0

C2_Witness ==
    /\ script = "schwab"
    /\ effects = {"makedirs", "client_from_login_flow"}
    /\ fs # fs0

(***************************************************************************)
(* C3 as stated: every answered POST /exchange_token is answered either    *)
(* with {success: true}, the vendor exchange having succeeded, or with     *)
(* HTTP 500 and a JSON body with an error field; no exception leaves the   *)
(* handler; and a succeeded vendor exchange is answered with success.      *)
(***************************************************************************)
C3_ExchangeAnswersSuccessOrJsonError ==
    ExchangeAnswered =>
        /\ ~response.uncaught
        /\ \/ response = SuccessResponse /\ vendorCalls = 1 /\ ~vendorFailed
           \/ /\ response.status = 500 /\ response.json /\ "error" \in response.fields
              /\ "success" \notin response.fields
        /\ vendorToken # EmptyStr => response = SuccessResponse

(***************************************************************************)
(* C4: every answered POST /create_link_token is answered either with HTTP *)
(* 200 and a JSON object holding just the link_token the vendor returned,  *)
(* the vendor call having returned, or with HTTP 500 and a JSON object     *)
(* holding just an error, building the request or the vendor call having   *)
(* raised.                                                                 *)
(***************************************************************************)
C4_CreateLinkTokenAnswers ==
    CreateAnswered =>
        /\ response.json /\ ~response.uncaught
        /\ \/ /\ response.status = 200 /\ response.fields = {"link_token"}
              /\ vendorCalls = 1 /\ ~vendorFailed
              /\ vendorToken # EmptyStr /\ response.link_token = vendorToken
           \/ /\ response.status = 500 /\ response.fields = {"error"}
              /\ response.link_token = EmptyStr
              /\ vendorToken = EmptyStr
              /\ vendorFailed \/ vendorCalls = 0

C4_Witness == CreateAnswered /\ response.status = 500 /\ vendorFailed

(***************************************************************************)
(* C5 as stated: the vendor exchange call is never given an empty public   *)
(* token, and POST /create_link_token never returns an empty link_token.   *)
(***************************************************************************)
C5_NoEmptyTokenForwarded ==
    /\ (script = "plaid" /\ route = "exchange_token" /\ vendorCalls > 0)
          => ~(sentToken.t = "str" /\ sentToken.v = EmptyStr)
    /\ (CreateAnswered /\ response.status = 200) => response.link_token # EmptyStr

(***************************************************************************)
(* C6: the public token given to the vendor is the request body's          *)
(* public_token (the empty string when the body has none); the 'Access     *)
(* token:' and 'PLAID_ACCESS_TOKEN_<n>=' lines carry the access token the  *)
(* vendor returned; the link_token answered is the one the vendor          *)
(* returned; the 'Institution:' line carries the institution name as       *)
(* given; only the 'PLAID_INSTITUTION_<n>=' line carries it lower-cased    *)
(* with spaces turned to underscores.                                      *)
(***************************************************************************)
C6_TokensNeverTransformed ==
    /\ (script = "plaid" /\ route = "exchange_token" /\ vendorCalls > 0)
          => sentToken = IF body.pt.t = "absent" THEN Str(EmptyStr) ELSE body.pt
    /\ (ExchangeAnswered /\ response = SuccessResponse) =>
          /\ \A i \in Lines("Access token") \cup Lines("PLAID_ACCESS_TOKEN") :
                stdout[i].val = vendorToken
          /\ \A i \in Lines("Institution") : stdout[i].val = RequestedName
          /\ \A i \in Lines("PLAID_INSTITUTION") : stdout[i].val = EnvNameOf(RequestedName)
          /\ Lines("Access token") # {} /\ Lines("PLAID_ACCESS_TOKEN") # {}
          /\ Lines("PLAID_INSTITUTION") # {}
    /\ (CreateAnswered /\ response.status = 200) => response.link_token = vendorToken

C6_Witness ==
    /\ ExchangeAnswered /\ response = SuccessResponse
    /\ body.pt = Str(<<"T">>)
    /\ vendorToken = <<"T">>
    /\ body.inst.name = Str(<<"A", " ">>)

(***************************************************************************)
(* C7 as stated: an answered POST /exchange_token has printed the          *)
(* institution name and the access token exactly when it is answered with  *)
(* success: answered with HTTP 500 it has printed nothing, answered with   *)
(* success it has printed the request's institution name ('unknown' when   *)
(* the request has none) and the vendor's access token.                    *)
(***************************************************************************)
C7_PrintsExactlyOnSuccess ==
    ExchangeAnswered =>
        /\ response.status = 500 => stdout = <<>>
        /\ response = SuccessResponse =>
              /\ \E i \in Lines("Institution") : stdout[i].val = RequestedName
              /\ \E i \in Lines("Access token") : stdout[i].val = vendorToken

(***************************************************************************)
(* C8: once the vendor login flow has been entered, the directory holding  *)
(* the token file exists with all its ancestors; every directory and file  *)
(* present at the start is still there; what was created is that directory *)
(* and its ancestors only; nothing was created when the directory was      *)
(* already present or when the token path has no directory component.      *)
(***************************************************************************)
C8_ParentDirExistsBeforeFlow ==
    "client_from_login_flow" \in effects =>
        LET parent == ParentOf(token_file)
            made == Resolve(token_dir)
        IN /\ IsDir(fs, parent)
           /\ \A k \in DOMAIN Prefixes(made) : IsDir(fs, Prefixes(made)[k])
           /\ fs0.dirs \subseteq fs.dirs /\ fs.files = fs0.files
           /\ fs.dirs \ fs0.dirs \subseteq {Prefixes(made)[k] : k \in DOMAIN Prefixes(made)}
           /\ IsDir(fs0, made) => fs = fs0
           /\ NoDirComponent(token_file) => fs = fs0 /\ "makedirs" \notin effects

C8_Witness ==
    /\ "client_from_login_flow" \in effects
    /\ Cardinality(fs.dirs \ fs0.dirs) = 2

(***************************************************************************)
(* C9 as stated: a run of the OAuth script with no required variable blank *)
(* and the SDK importable ends in one of two ways: the flow returned, the  *)
(* success message with the path is printed and the exit is zero; or the   *)
(* flow raised, the exit is non-zero with an error message and no success  *)
(* message is printed.  The path given to the flow is the stripped         *)
(* configured path, the one reported.                                      *)
(***************************************************************************)
FlowOutcome ==
    /\ vendorCalls = 1
    /\ flowPath = token_file
    /\ IsStrippedOf(flowPath, env["SCHWAB_TOKEN_FILE"].val)
    /\ \/ /\ ~vendorFailed /\ exitCode = 0 /\ stderr = NoError
          /\ \E i \in Lines("success") : stdout[i].val = flowPath
       \/ /\ vendorFailed /\ exitCode # 0 /\ stderr # NoError
          /\ Lines("success") = {}

C10_NoRetry ==
    /\ vendorCalls <= 1
    /\ vendorFailed =>
          /\ vendorCalls = 1
          /\ IF script = "plaid"
             THEN pc = "responded" /\ response = ErrorResponse
             ELSE exited /\ exitCode # 0

C10_Witness ==
    /\ script = "plaid" /\ route = "exchange_token"
    /\ vendorFailed /\ response = ErrorResponse

====
